---- MODULE Spec2Model ----
(***************************************************************************)
(* The drop-down menu widget of src/src/menu.rs: a Menu header that owns   *)
(* an ordered list of entries (Actions and Separators), the incremental    *)
(* layout done by add_action / add_separator, and the pointer-event state  *)
(* machines of Menu, Action and Separator.                                 *)
(*                                                                         *)
(* Three specifications share the variables:                               *)
(*   Spec        the Menu: rect set while it has no entries, appends,      *)
(*               pointer events and draws in any order;                    *)
(*   SpecLayout  the layout alone, with the Menu's public rect cell also   *)
(*               rewritten between appends;                                *)
(*   SpecAction  one Action placed on its own, receiving every event.      *)
(***************************************************************************)
EXTENDS Integers, Sequences, FiniteSets

VARIABLES
    rect,       \* Menu.rect (menu.rs:13)
    entries,    \* Menu.entries, in insertion order (menu.rs:19)
    pressed,    \* Menu.pressed (menu.rs:21)
    activated,  \* Menu.activated (menu.rs:22)
    last,       \* the last call made and what it did that a caller can observe
    before,     \* the receiving widget's flags as they were when the last call began
    armed,      \* history: indices of Actions that received a button-down inside
                \* their rectangle and, since then, only events outside it
    stable      \* history: Menu.rect has not been rewritten since the first append

vars == <<rect, entries, pressed, activated, last, before, armed, stable>>

----------------------------------------------------------------------------
(* Bounds of the model.                                                    *)

MaxEntries == 2
MaxLayoutEntries == 3
MaxLabelLen == 2
MaxOrigin == 1
MaxHeight == 1
MaxWidthSteps == 2
WidthStep == 6

(* Program constant: the fixed glyph cell width of add_action.             *)
GlyphWidth == 8

----------------------------------------------------------------------------
(* Geometry primitives and cells.                                          *)

Rect(x, y, w, h) == [x |-> x, y |-> y, width |-> w, height |-> h]

Point(x, y) == [x |-> x, y |-> y]

RectDefault == Rect(0, 0, 0, 0)

\* Rect::contains: half-open on both axes.
Contains(r, p) ==
    /\ p.x >= r.x
    /\ p.x < r.x + r.width
    /\ p.y >= r.y
    /\ p.y < r.y + r.height

\* Rect::point and Point - Point: the point in the rectangle's local space.
LocalPoint(p, r) == Point(p.x - r.x, p.y - r.y)

\* CheckSet::check_set: writes the value and reports whether it changed.
CheckSet(cell, value) == [changed |-> cell # value, value |-> value]

----------------------------------------------------------------------------
(* Events.                                                                 *)

Mouse(p, left) == [kind |-> "Mouse", point |-> p, left_button |-> left]

OtherEvent == [kind |-> "Other", point |-> Point(0, 0), left_button |-> FALSE]

\* The points probed around a rectangle: its first and last inner points,
\* and the first points past its right and bottom edges.
Probes(r) ==
    {Point(r.x, r.y),
     Point(r.x + r.width - 1, r.y + r.height - 1),
     Point(r.x + r.width, r.y),
     Point(r.x, r.y + r.height)}

\* A point outside every rectangle of the model (all origins are >= 0).
FarPoint == Point(-1, -1)

\* The pointer positions delivered to a widget tree with these rectangles.
Points(rects) == UNION {Probes(r) : r \in rects} \cup {FarPoint}

Events(rects) ==
    {Mouse(p, l) : p \in Points(rects), l \in BOOLEAN} \cup {OtherEvent}

----------------------------------------------------------------------------
(* Entries.                                                                *)

\* Action::new: default rect, flags clear.  text is the label's byte length.
ActionNew(len) ==
    [kind |-> "Action", rect |-> RectDefault, text |-> len,
     pressed |-> FALSE, hover |-> FALSE]

\* Separator::new: default rect; its text() is the empty string.
SeparatorNew ==
    [kind |-> "Separator", rect |-> RectDefault, text |-> 0,
     pressed |-> FALSE, hover |-> FALSE]

\* Variant of ActionConsumes: the Action claims every event, as a Separator
\* under the pointer does.
ActionClaims == TRUE

\* The value Action::event returns.
ActionConsumes == FALSE

\* What an entry's handler hands back: the entry after the event, the redraw
\* out-flag, the points passed to its click callback, and its return value.
Handled(entry, redraw, clicks, ret) ==
    [entry |-> entry, redraw |-> redraw, clicks |-> clicks, ret |-> ret]

\* Variant of ActionInsideDown: only a change of hover requests redraw.
ActionInsideDownHoverOnly(a, redraw) ==
    LET h == CheckSet(a.hover, TRUE)
        p == CheckSet(a.pressed, TRUE)
    IN Handled([a EXCEPT !.hover = h.value, !.pressed = p.value],
               redraw \/ h.changed,
               <<>>,
               ActionConsumes)

\* Action::event, pointer inside, button down: edge-set hover and pressed.
ActionInsideDown(a, redraw) ==
    LET h == CheckSet(a.hover, TRUE)
        p == CheckSet(a.pressed, TRUE)
    IN Handled([a EXCEPT !.hover = h.value, !.pressed = p.value],
               redraw \/ h.changed \/ p.changed,
               <<>>,
               ActionConsumes)

\* Variant of ActionInsideUp: every button-up inside is a click, pressed or
\* not.
ActionInsideUpAlwaysClicks(a, point, redraw) ==
    Handled([a EXCEPT !.hover = FALSE, !.pressed = FALSE],
            TRUE,
            <<LocalPoint(point, a.rect)>>,
            ActionConsumes)

\* Variant of ActionInsideUp: redraw is requested on every button-up inside
\* (level-triggered), not only when a flag changes.
ActionInsideUpLevel(a, point, redraw) ==
    LET p == CheckSet(a.pressed, FALSE) IN
    IF p.changed
    THEN Handled([a EXCEPT !.hover = FALSE, !.pressed = p.value],
                 TRUE,
                 <<LocalPoint(point, a.rect)>>,
                 ActionConsumes)
    ELSE Handled([a EXCEPT !.hover = TRUE, !.pressed = p.value],
                 TRUE,
                 <<>>,
                 ActionConsumes)

\* Action::event, pointer inside, button up: edge-set hover; a release of a
\* pressed Action is a click, which clears hover again.
ActionInsideUp(a, point, redraw) ==
    LET h == CheckSet(a.hover, TRUE)
        p == CheckSet(a.pressed, FALSE)
    IN IF p.changed
       THEN Handled([a EXCEPT !.hover = FALSE, !.pressed = p.value],
                    TRUE,
                    <<LocalPoint(point, a.rect)>>,
                    ActionConsumes)
       ELSE Handled([a EXCEPT !.hover = h.value, !.pressed = p.value],
                    redraw \/ h.changed,
                    <<>>,
                    ActionConsumes)

\* Variant of ActionOutside: a release outside the rectangle leaves pressed
\* as it is.
ActionOutsideKeepsPressed(a, left_button, redraw) ==
    LET h == CheckSet(a.hover, FALSE) IN
    Handled([a EXCEPT !.hover = h.value],
            redraw \/ h.changed,
            <<>>,
            ActionConsumes)

\* Variant of ActionOutside: the release of a pressed Action outside its
\* rectangle is taken for a click.
ActionOutsideClicks(a, left_button, redraw) ==
    LET h == CheckSet(a.hover, FALSE)
        p == CheckSet(a.pressed, FALSE)
    IN IF ~left_button
       THEN Handled([a EXCEPT !.hover = h.value, !.pressed = p.value],
                    redraw \/ h.changed \/ p.changed,
                    IF p.changed THEN <<Point(0, 0)>> ELSE <<>>,
                    ActionConsumes)
       ELSE Handled([a EXCEPT !.hover = h.value],
                    redraw \/ h.changed,
                    <<>>,
                    ActionConsumes)

\* Action::event, pointer outside: edge-clear hover; a release clears pressed
\* without a click.
ActionOutside(a, left_button, redraw) ==
    LET h == CheckSet(a.hover, FALSE)
        p == CheckSet(a.pressed, FALSE)
    IN IF ~left_button
       THEN Handled([a EXCEPT !.hover = h.value, !.pressed = p.value],
                    redraw \/ h.changed \/ p.changed,
                    <<>>,
                    ActionConsumes)
       ELSE Handled([a EXCEPT !.hover = h.value],
                    redraw \/ h.changed,
                    <<>>,
                    ActionConsumes)

\* Action::event.
Action_event(a, ev, redraw) ==
    IF ev.kind # "Mouse"
    THEN Handled(a, redraw, <<>>, ActionConsumes)
    ELSE IF Contains(a.rect, ev.point)
    THEN IF ev.left_button
         THEN ActionInsideDown(a, redraw)
         ELSE ActionInsideUp(a, ev.point, redraw)
    ELSE ActionOutside(a, ev.left_button, redraw)

\* Variant of Separator_event: the Separator never claims the event.
SeparatorIgnores(s, ev, redraw) == Handled(s, redraw, <<>>, FALSE)

\* Separator::event: reports whether the pointer is inside; changes nothing.
Separator_event(s, ev, redraw) ==
    Handled(s, redraw, <<>>,
            IF ev.kind = "Mouse" THEN Contains(s.rect, ev.point) ELSE FALSE)

\* entry.event(..): dynamic dispatch over the two kinds of entry.
Entry_event(e, ev, redraw) ==
    IF e.kind = "Action"
    THEN Action_event(e, ev, redraw)
    ELSE Separator_event(e, ev, redraw)

----------------------------------------------------------------------------
(* Menu layout: add_action and add_separator.                              *)

\* add_action's required width for a label of len bytes.  The u32 product
\* cannot wrap for the label lengths of the model.
ActionTextWidth(len) == len * GlyphWidth

\* Variant of ActionStartRect: the label's width is not taken into account.
ActionStartRectNoLabel(menu_rect, len) == menu_rect

\* add_action's starting rectangle: the Menu's, widened to the label.
ActionStartRect(menu_rect, len) ==
    IF menu_rect.width < ActionTextWidth(len)
    THEN [menu_rect EXCEPT !.width = ActionTextWidth(len)]
    ELSE menu_rect

\* Variant of ActionWalkStep: every existing entry is given the action's
\* width, also when it is the wider one.
ActionWalkStepForce(acc, entry) ==
    [y |-> acc.y + entry.rect.height,
     width |-> acc.width,
     entries |-> Append(acc.entries, [entry EXCEPT !.rect.width = acc.width])]

\* Variant of ActionWalkStep: the new action keeps its own width, and a wider
\* existing entry is cut down to it.
ActionWalkStepShrink(acc, entry) ==
    [y |-> acc.y + entry.rect.height,
     width |-> acc.width,
     entries |-> IF entry.rect.width # acc.width
                 THEN Append(acc.entries,
                             [entry EXCEPT !.rect.width = acc.width])
                 ELSE Append(acc.entries, entry)]

\* One step of add_action's walk over an existing entry: accumulate y, and
\* either stretch the entry to the action's width or take the entry's width.
ActionWalkStep(acc, entry) ==
    IF entry.rect.width < acc.width
    THEN [y |-> acc.y + entry.rect.height,
          width |-> acc.width,
          entries |-> Append(acc.entries,
                             [entry EXCEPT !.rect.width = acc.width])]
    ELSE [y |-> acc.y + entry.rect.height,
          width |-> entry.rect.width,
          entries |-> Append(acc.entries, entry)]

\* add_action's loop over self.entries, in order.
ActionWalk(ents, y0, width0) ==
    LET walk[i \in 0..Len(ents)] ==
            IF i = 0
            THEN [y |-> y0, width |-> width0, entries |-> <<>>]
            ELSE ActionWalkStep(walk[i - 1], ents[i])
    IN walk[Len(ents)]

\* Menu::add_action: the entry list after appending an Action with a label
\* of len bytes.
add_action(menu_rect, ents, len) ==
    LET action_rect == ActionStartRect(menu_rect, len)
        w == ActionWalk(ents, action_rect.y + action_rect.height,
                        action_rect.width)
        action == [ActionNew(len) EXCEPT
                       !.rect = [action_rect EXCEPT !.width = w.width,
                                                    !.y = w.y]]
    IN Append(w.entries, action)

\* Variant of SeparatorWalkStep: the entry's height is not added to y.
SeparatorWalkStepFlat(acc, entry) ==
    [y |-> acc.y,
     width |-> IF entry.rect.width > acc.width
               THEN entry.rect.width
               ELSE acc.width]

\* Variant of SeparatorWalkStep: the Separator keeps the Menu's width.
SeparatorWalkStepNarrow(acc, entry) ==
    [y |-> acc.y + entry.rect.height,
     width |-> acc.width]

\* One step of add_separator's walk: accumulate y, keep the widest width.
SeparatorWalkStep(acc, entry) ==
    [y |-> acc.y + entry.rect.height,
     width |-> IF entry.rect.width > acc.width
               THEN entry.rect.width
               ELSE acc.width]

\* add_separator's loop over self.entries, in order.
SeparatorWalk(ents, y0, width0) ==
    LET walk[i \in 0..Len(ents)] ==
            IF i = 0
            THEN [y |-> y0, width |-> width0]
            ELSE SeparatorWalkStep(walk[i - 1], ents[i])
    IN walk[Len(ents)]

\* Variant of add_separator: the walk stretches narrower siblings, as
\* add_action's does.
add_separator_stretching(menu_rect, ents) ==
    LET w == ActionWalk(ents, menu_rect.y + menu_rect.height, menu_rect.width)
        separator == [SeparatorNew EXCEPT
                          !.rect = [menu_rect EXCEPT !.width = w.width,
                                                     !.y = w.y]]
    IN Append(w.entries, separator)

\* Menu::add_separator: the entry list after appending a Separator.
add_separator(menu_rect, ents) ==
    LET w == SeparatorWalk(ents, menu_rect.y + menu_rect.height,
                           menu_rect.width)
        separator == [SeparatorNew EXCEPT
                          !.rect = [menu_rect EXCEPT !.width = w.width,
                                                     !.y = w.y]]
    IN Append(ents, separator)

----------------------------------------------------------------------------
(* Menu::event.                                                            *)

\* What the forwarding loop is left at when it does not run.
ForwardNone(ents, pressed0) ==
    [entries |-> ents,
     redraw |-> FALSE,
     ignore_event |-> FALSE,
     pressed |-> pressed0,
     clicks |-> [i \in 1..Len(ents) |-> <<>>],
     offered |-> <<>>]

\* The loop that offers the event to every entry, in order.  An entry's
\* handler reads and writes its own cells only and can but raise the shared
\* redraw flag, so the iterations are independent of one another: an entry
\* that returns true sets ignore_event and forces the Menu's pressed.
ForwardAll(ents, ev, pressed0) ==
    LET n == Len(ents)
        claimed == \E i \in 1..n : Entry_event(ents[i], ev, FALSE).ret
    IN [entries |-> [i \in 1..n |-> Entry_event(ents[i], ev, FALSE).entry],
        redraw |-> \E i \in 1..n : Entry_event(ents[i], ev, FALSE).redraw,
        ignore_event |-> claimed,
        pressed |-> IF claimed THEN TRUE ELSE pressed0,
        clicks |-> [i \in 1..n |-> Entry_event(ents[i], ev, FALSE).clicks],
        offered |-> [i \in 1..n |-> i]]

\* Variant of Forward: the entries are offered the event whether or not the
\* Menu is activated.
ForwardAlways(ents, ev, pressed0, activated0) ==
    ForwardAll(ents, ev, pressed0)

\* The first block of Menu::event: entries are offered the event only when
\* the Menu is activated as the call begins.
Forward(ents, ev, pressed0, activated0) ==
    IF activated0
    THEN ForwardAll(ents, ev, pressed0)
    ELSE ForwardNone(ents, pressed0)

\* Variant of HeaderDown: every button-down in the header is a click.
HeaderDownAlwaysClicks(s) ==
    LET a == CheckSet(s.activated, TRUE) IN
    [pressed |-> ~s.pressed,
     activated |-> a.value,
     redraw |-> s.redraw \/ a.changed,
     click |-> TRUE]

\* Pointer inside the header, button down: toggle pressed, edge-set activated.
HeaderDown(s) ==
    LET a == CheckSet(s.activated, TRUE) IN
    [pressed |-> ~s.pressed,
     activated |-> a.value,
     redraw |-> s.redraw \/ a.changed,
     click |-> a.changed]

\* Variant of HeaderUp: the release collapses the Menu whether or not a press
\* is in progress.
HeaderUpUnguarded(s) ==
    LET a == CheckSet(s.activated, FALSE) IN
    [s EXCEPT !.activated = a.value,
              !.redraw = s.redraw \/ a.changed,
              !.click = a.changed]

\* Pointer inside the header, button up: collapse unless mid-press.
HeaderUp(s) ==
    IF ~s.pressed
    THEN LET a == CheckSet(s.activated, FALSE) IN
         [s EXCEPT !.activated = a.value,
                   !.redraw = s.redraw \/ a.changed,
                   !.click = a.changed]
    ELSE s

\* Variant of OutsideDown: a press outside the header leaves pressed as it is.
OutsideDownKeeps(s) == s

\* Pointer outside the header, no entry claimed the event, button down.
OutsideDown(s) == [s EXCEPT !.pressed = FALSE]

\* Variant of OutsideUp: the release collapses the Menu whether or not a press
\* is in progress.
OutsideUpUnguarded(s) ==
    LET a == CheckSet(s.activated, FALSE) IN
    [s EXCEPT !.activated = a.value,
              !.redraw = s.redraw \/ a.changed]

\* Variant of OutsideUp: the collapse also fires the click callback, as the
\* header branch does.
OutsideUpClicks(s) ==
    IF ~s.pressed
    THEN LET a == CheckSet(s.activated, FALSE) IN
         [s EXCEPT !.activated = a.value,
                   !.redraw = s.redraw \/ a.changed,
                   !.click = a.changed]
    ELSE s

\* Pointer outside the header, no entry claimed the event, button up.
OutsideUp(s) ==
    IF ~s.pressed
    THEN LET a == CheckSet(s.activated, FALSE) IN
         [s EXCEPT !.activated = a.value,
                   !.redraw = s.redraw \/ a.changed]
    ELSE s

\* The Menu's own hit-test and transition, on its header rectangle only.
MenuOwn(menu_rect, ev, s, ignore_event) ==
    IF ev.kind # "Mouse"
    THEN s
    ELSE IF Contains(menu_rect, ev.point)
    THEN IF ev.left_button THEN HeaderDown(s) ELSE HeaderUp(s)
    ELSE IF ~ignore_event
    THEN IF ev.left_button THEN OutsideDown(s) ELSE OutsideUp(s)
    ELSE s

\* Menu::event: forward, then the Menu's own transition, then the callback.
\* clicks holds the points handed to emit_click; redraw is the out-flag, taken
\* to be false when the call begins.  The return value is the focused
\* argument, which the handler neither reads nor changes.
Menu_event(menu_rect, ents, pressed0, activated0, ev) ==
    LET f == Forward(ents, ev, pressed0, activated0)
        s == MenuOwn(menu_rect, ev,
                     [pressed |-> f.pressed, activated |-> activated0,
                      redraw |-> f.redraw, click |-> FALSE],
                     f.ignore_event)
    IN [entries |-> f.entries,
        pressed |-> s.pressed,
        activated |-> s.activated,
        redraw |-> s.redraw,
        ignore_event |-> f.ignore_event,
        offered |-> f.offered,
        entry_clicks |-> f.clicks,
        clicks |-> IF s.click
                   THEN <<LocalPoint(ev.point, menu_rect)>>
                   ELSE <<>>]

----------------------------------------------------------------------------
(* Menu::draw.                                                             *)

\* The entries Menu::draw draws, in the order it draws them.  The header's
\* fill and glyphs go to the renderer only and are left out: they write no
\* cell of the Menu.
Menu_draw(ents, activated0) ==
    IF activated0 THEN [i \in 1..Len(ents) |-> i] ELSE <<>>

----------------------------------------------------------------------------------------------------------------------------------------------------
(* Inputs.                                                                 *)

Origins == {Point(0, 0), Point(MaxOrigin, MaxOrigin)}

Widths == {WidthStep * k : k \in 0..MaxWidthSteps}

Heights == 0..MaxHeight

\* The rectangles written to a rect cell.
Rects == {Rect(o.x, o.y, w, h) : o \in Origins, w \in Widths, h \in Heights}

\* Label lengths in bytes (String::len).
LabelLens == 0..MaxLabelLen

\* The inputs of the Menu under events: the extreme header sizes and label
\* lengths, so that entries narrower and wider than the header both occur.
MenuRects ==
    {r \in Rects : r.width \in {0, WidthStep} /\ r.height \in {0, MaxHeight}}

MenuLabelLens == {1, MaxLabelLen}

\* The rectangles of the Menu's widget tree: the header and every entry.
TreeRects == {rect} \cup {entries[i].rect : i \in 1..Len(entries)}

----
(* What a caller observes of a call.                                       *)

Observed(op) ==
    [op |-> op,
     event |-> OtherEvent,
     redraw |-> FALSE,
     clicks |-> <<>>,
     entry_clicks |-> <<>>,
     offered |-> <<>>,
     drawn |-> <<>>]

\* The Actions armed after an event: an Action that received the event is
\* armed by a button-down inside it, disarmed by a button-up inside it, and
\* keeps its status over events outside it.
ArmedAfter(armed0, ents, offered, ev) ==
    LET got == {offered[k] : k \in 1..Len(offered)}
        inside(i) == ev.kind = "Mouse" /\ Contains(ents[i].rect, ev.point)
    IN {i \in 1..Len(ents) :
          /\ ents[i].kind = "Action"
          /\ IF i \in got /\ inside(i)
             THEN ev.left_button
             ELSE i \in armed0}

----------------------------------------------------------------------------------------------------------------------------------------------------
(* Classifying the last event against the rectangles.                      *)

InRect(ev, r) == ev.kind = "Mouse" /\ Contains(r, ev.point)

OutOfRect(ev, r) == ev.kind = "Mouse" /\ ~Contains(r, ev.point)

ButtonDown(ev) == ev.kind = "Mouse" /\ ev.left_button

ButtonUp(ev) == ev.kind = "Mouse" /\ ~ev.left_button

InHeader(ev) == InRect(ev, rect)

\* The indices of the entries whose rectangle holds the event's point.
EntriesAt(ev) == {i \in 1..Len(entries) : InRect(ev, entries[i].rect)}

\* The last call was the button-down in the header of a collapsed, unpressed
\* Menu.
Opening ==
    /\ last.op = "event"
    /\ InHeader(last.event)
    /\ ButtonDown(last.event)
    /\ ~before.activated
    /\ ~before.pressed

\* The last call was a button-down in the header, and every call since the
\* Menu was last collapsed and unpressed was one.
Holding ==
    /\ last.op = "event"
    /\ InHeader(last.event)
    /\ ButtonDown(last.event)
    /\ \/ ~before.activated /\ ~before.pressed
       \/ before.holding

\* The last call was the button-up in the header that followed the Opening
\* button-down.
Opened ==
    /\ last.op = "event"
    /\ InHeader(last.event)
    /\ ButtonUp(last.event)
    /\ before.opening

\* The Action entries that the last call, a button-down outside the header
\* on a Menu just Opened, pressed.
Aimed ==
    {i \in 1..Len(entries) :
        /\ last.op = "event"
        /\ before.opened
        /\ ButtonDown(last.event)
        /\ ~InHeader(last.event)
        /\ InRect(last.event, entries[i].rect)
        /\ entries[i].kind = "Action"}

\* The Menu's flags, and what the calls that led here were.
MenuFlags ==
    [pressed |-> pressed, activated |-> activated, opening |-> Opening,
     holding |-> Holding, opened |-> Opened, aimed |-> Aimed]

----
(* The Menu.                                                               *)

\* Menu::new.
Init ==
    /\ rect = RectDefault
    /\ entries = <<>>
    /\ pressed = FALSE
    /\ activated = FALSE
    /\ last = Observed("new")
    /\ before = [pressed |-> FALSE, activated |-> FALSE, opening |-> FALSE,
                 holding |-> FALSE, opened |-> FALSE, aimed |-> {}]
    /\ armed = {}
    /\ stable = TRUE

\* The Menu's rect cell is written (position / size) before entries are added.
SetRect ==
    \E r \in MenuRects :
        /\ entries = <<>>
        /\ rect' = r
        /\ last' = Observed("set_rect")
        /\ before' = MenuFlags
        /\ UNCHANGED <<entries, pressed, activated, armed, stable>>

\* The Menu's rect cell is written at any time, also between appends; the
\* model follows one such write after the first append, not several.
Resize ==
    \E r \in Rects :
        /\ stable
        /\ rect' = r
        /\ stable' = (stable /\ entries = <<>>)
        /\ last' = Observed("set_rect")
        /\ before' = MenuFlags
        /\ UNCHANGED <<entries, pressed, activated, armed>>

AddAction(max, lens) ==
    \E len \in lens :
        /\ Len(entries) < max
        /\ entries' = add_action(rect, entries, len)
        /\ last' = Observed("add_action")
        /\ before' = MenuFlags
        /\ UNCHANGED <<rect, pressed, activated, armed, stable>>

AddSeparator(max) ==
    /\ Len(entries) < max
    /\ entries' = add_separator(rect, entries)
    /\ last' = Observed("add_separator")
    /\ before' = MenuFlags
    /\ UNCHANGED <<rect, pressed, activated, armed, stable>>

\* One pointer event (or other event) delivered to the Menu.
Event ==
    \E ev \in Events(TreeRects) :
        \E r \in {Menu_event(rect, entries, pressed, activated, ev)} :
        /\ entries' = r.entries
        /\ pressed' = r.pressed
        /\ activated' = r.activated
        /\ last' = [Observed("event") EXCEPT
                        !.event = ev,
                        !.redraw = r.redraw,
                        !.clicks = r.clicks,
                        !.entry_clicks = r.entry_clicks,
                        !.offered = r.offered]
        /\ before' = MenuFlags
        /\ UNCHANGED <<rect, armed, stable>>

\* One draw pass over the Menu.
Draw ==
    /\ last' = [Observed("draw") EXCEPT !.drawn = Menu_draw(entries, activated)]
    /\ before' = MenuFlags
    /\ UNCHANGED <<rect, entries, pressed, activated, armed, stable>>

Next ==
    \/ SetRect
    \/ AddAction(MaxEntries, MenuLabelLens)
    \/ AddSeparator(MaxEntries)
    \/ Event
    \/ Draw

Spec == Init /\ [][Next]_vars

----------------------------------------------------------------------------
(* The layout alone.                                                       *)

NextLayout ==
    \/ Resize
    \/ AddAction(MaxLayoutEntries, LabelLens)
    \/ AddSeparator(MaxLayoutEntries)

SpecLayout == Init /\ [][NextLayout]_vars

----------------------------------------------------------------------------
(* One Action placed on its own: it is entries[1] and receives every event. *)

InitAction ==
    /\ rect = RectDefault
    /\ entries \in {<<ActionNew(len)>> : len \in MenuLabelLens}
    /\ pressed = FALSE
    /\ activated = FALSE
    /\ last = Observed("new")
    /\ before = [pressed |-> FALSE, hover |-> FALSE, held |-> FALSE]
    /\ armed = {}
    /\ stable = TRUE

\* History: the last button event the Action received was a button-down
\* inside its rectangle, or one was received and no button-up has followed.
Held ==
    /\ last.op = "event"
    /\ IF ButtonDown(last.event) /\ InRect(last.event, entries[1].rect)
       THEN TRUE
       ELSE IF ButtonUp(last.event) THEN FALSE ELSE before.held

ActionFlags ==
    [pressed |-> entries[1].pressed, hover |-> entries[1].hover,
     held |-> Held]

\* The Action's rect cell is written once, when it is placed.
PlaceAction ==
    \E r \in Rects :
        /\ last.op = "new"
        /\ entries' = <<[entries[1] EXCEPT !.rect = r]>>
        /\ last' = Observed("set_rect")
        /\ before' = ActionFlags
        /\ UNCHANGED <<rect, pressed, activated, armed, stable>>

\* One event delivered to the Action.
ActionDeliver ==
    \E ev \in Events({entries[1].rect}) :
        \E r \in {Action_event(entries[1], ev, FALSE)} :
            /\ entries' = <<r.entry>>
            /\ last' = [Observed("event") EXCEPT
                            !.event = ev,
                            !.redraw = r.redraw,
                            !.entry_clicks = <<r.clicks>>,
                            !.offered = <<1>>]
            /\ before' = ActionFlags
            /\ armed' = ArmedAfter(armed, entries, <<1>>, ev)
            /\ UNCHANGED <<rect, pressed, activated, stable>>

NextAction ==
    \/ PlaceAction
    \/ ActionDeliver

SpecAction == InitAction /\ [][NextAction]_vars

----------------------------------------------------------------------------
(* Claims about the Menu's event state machine (Spec).                     *)

ReleaseInHeader ==
    last.op = "event" /\ InHeader(last.event) /\ ButtonUp(last.event)

\* C1: from a collapsed, unpressed Menu, a button-down inside the header
\* leaves activated and pressed set, requests redraw and invokes the Menu's
\* click callback exactly once; the button-up inside the header that follows
\* leaves activated set and does not invoke the callback again.
C1_PressThenReleaseKeepsOpen ==
    /\ Opening =>
          /\ activated
          /\ pressed
          /\ last.redraw
          /\ Len(last.clicks) = 1
    /\ (before.opening /\ ReleaseInHeader) =>
          /\ activated
          /\ last.clicks = <<>>

\* The release that follows the opening press has been handled, on a Menu
\* that has entries.
C1_Witness ==
    /\ before.opening
    /\ ReleaseInHeader
    /\ activated
    /\ entries # <<>>

\* A button-up outside the header and outside every entry was delivered to an
\* expanded Menu.
ReleasedOutsideExpanded ==
    /\ last.op = "event"
    /\ before.activated
    /\ ButtonUp(last.event)
    /\ ~InHeader(last.event)
    /\ EntriesAt(last.event) = {}

\* C2 as stated: in any reachable state of an expanded Menu, a button-up
\* outside the header and every entry collapses the Menu, requests redraw and
\* does not invoke the Menu's click callback.
C2_AsStated ==
    ReleasedOutsideExpanded =>
        /\ ~activated
        /\ last.redraw
        /\ last.clicks = <<>>

\* C2, amended: the same for an expanded Menu whose pressed flag is clear when
\* the event arrives (a Menu that is mid-press stays expanded).
C2_OutsideReleaseCollapses ==
    (ReleasedOutsideExpanded /\ ~before.pressed) =>
        /\ ~activated
        /\ last.redraw
        /\ last.clicks = <<>>

\* An expanded, unpressed Menu with entries was collapsed by such a release.
C2_Witness ==
    /\ ReleasedOutsideExpanded
    /\ ~before.pressed
    /\ ~activated
    /\ entries # <<>>

\* A button-down inside an Action entry and outside the header was delivered
\* to an expanded Menu.
PressedInAction ==
    /\ last.op = "event"
    /\ before.activated
    /\ ButtonDown(last.event)
    /\ ~InHeader(last.event)
    /\ \E i \in EntriesAt(last.event) : entries[i].kind = "Action"

\* C3 as stated: such a press leaves the Menu's own pressed flag set.
C3_AsStated == PressedInAction => pressed

\* C3, amended: such a press, at a point that no Separator holds, leaves the
\* Menu's own pressed flag clear (the Action does not claim the event, so the
\* Menu handles it as a press outside the header).
C3_PressInActionClearsPressed ==
    (/\ PressedInAction
     /\ \A i \in EntriesAt(last.event) : entries[i].kind = "Action") => ~pressed

\* Such a press reached a Menu that was mid-press, and cleared the flag.
C3_Witness ==
    /\ PressedInAction
    /\ before.pressed
    /\ ~pressed

----------------------------------------------------------------------------
(* Claims about the Action's event state machine (SpecAction).             *)

\* The Action has had a button-down inside its rectangle and, since then,
\* only events outside it; the last call was one of these events.
DraggedOff == last.op = "event" /\ 1 \in armed

\* C4: an Action that receives a button-down inside its rectangle, then any
\* number of events outside it, then a button-up outside it never invokes
\* its click callback in that sequence, and ends with pressed and hover
\* clear.
C4_DragOffSuppressesClick ==
    DraggedOff =>
        /\ last.entry_clicks[1] = <<>>
        /\ (ButtonUp(last.event) /\ OutOfRect(last.event, entries[1].rect)) =>
              (~entries[1].pressed /\ ~entries[1].hover)

\* The button-up outside has ended such a sequence and released the press.
C4_Witness ==
    /\ DraggedOff
    /\ ButtonUp(last.event)
    /\ OutOfRect(last.event, entries[1].rect)
    /\ before.pressed
    /\ ~entries[1].pressed

\* The last call delivered a button-up inside the Action's rectangle.
HoveredUp ==
    /\ last.op = "event"
    /\ InRect(last.event, entries[1].rect)
    /\ ButtonUp(last.event)

\* The step delivers the event of the last call once more.
SameEventAgain == last'.op = "event" /\ last'.event = last.event

\* C5 as stated: for an Action in any reachable state, the second of two
\* consecutive deliveries of the same "inside, button up" event never
\* requests redraw.
C5_AsStated == [][(HoveredUp /\ SameEventAgain) => ~last'.redraw]_vars

\* C5, amended: the same for an Action whose pressed flag is clear when the
\* first of the two is delivered (the release of a pressed Action clears
\* hover, which the second delivery sets again).
C5_HoverIsEdgeTriggered ==
    [][(HoveredUp /\ ~before.pressed /\ SameEventAgain) => ~last'.redraw]_vars

\* A button-up inside was delivered to an unpressed Action that already
\* hovered, and requested no redraw.
C5_Witness ==
    /\ HoveredUp
    /\ ~before.pressed
    /\ before.hover
    /\ ~last.redraw

----------------------------------------------------------------------------
(* Claims about the layout (SpecLayout).                                   *)

Indices == 1..Len(entries)

ActionIndices == {i \in Indices : entries[i].kind = "Action"}

SeparatorIndices == {i \in Indices : entries[i].kind = "Separator"}

MaxOf(S) == CHOOSE m \in S : \A x \in S : x <= m

\* The widths requested by the Actions appended so far: 8 * label length.
RequestedWidths == {GlyphWidth * entries[i].text : i \in ActionIndices}

Appended == last.op \in {"add_action", "add_separator"}

\* C6 as stated: after any appends, every Action's width is the maximum of
\* the widths requested by the Actions appended so far, whatever the Menu's
\* header width.
C6_AsStated ==
    \A i \in ActionIndices : entries[i].rect.width = MaxOf(RequestedWidths)

\* C6, amended: for a Menu whose rectangle is fixed before the appends, every
\* Action's width is the maximum of the Menu's own width and the widths
\* requested by the Actions appended so far.
C6_ActionWidthIsMax ==
    stable =>
        \A i \in ActionIndices :
            entries[i].rect.width = MaxOf(RequestedWidths \cup {rect.width})

\* Actions with different labels, the first stretched to a later, longer one
\* that is wider than the Menu.
C6_Witness ==
    /\ stable
    /\ Cardinality(ActionIndices) >= 2
    /\ 1 \in ActionIndices
    /\ GlyphWidth * entries[1].text < entries[1].rect.width
    /\ rect.width < entries[1].rect.width

\* C7 as stated: no later add_action or add_separator changes the width of a
\* Separator that has been appended.
C7_AsStated ==
    [][\A i \in SeparatorIndices :
           entries'[i].rect.width = entries[i].rect.width]_vars

\* C7, amended: no later add_separator changes the width of a Separator that
\* has been appended, and no later add_action makes it narrower (add_action
\* widens a Separator that is narrower than the new Action).
C7_SeparatorWidthNeverShrinks ==
    [][\A i \in SeparatorIndices :
           /\ entries'[i].rect.width >= entries[i].rect.width
           /\ last'.op = "add_separator" =>
                  entries'[i].rect.width = entries[i].rect.width]_vars

\* A Separator appended first, at the Menu's width, has been widened by a
\* later add_action.
C7_Witness ==
    /\ stable
    /\ last.op = "add_action"
    /\ 1 \in SeparatorIndices
    /\ entries[1].rect.width > rect.width

\* C8: for a Menu whose rectangle is fixed before the appends, entry 0 lies
\* directly below the header and every entry directly below the one before.
C8_Stacking ==
    stable =>
        /\ entries # <<>> => entries[1].rect.y = rect.y + rect.height
        /\ \A i \in Indices \ {Len(entries)} :
               entries[i + 1].rect.y = entries[i].rect.y + entries[i].rect.height

\* Three or more entries of both kinds under a header of non-zero height
\* that does not sit at the origin.
C8_Witness ==
    /\ stable
    /\ Len(entries) >= 3
    /\ ActionIndices # {}
    /\ SeparatorIndices # {}
    /\ rect.height > 0
    /\ rect.y > 0

\* C9: for a Menu whose rectangle is fixed before the appends, all entries
\* have the same width, and the entry just appended has the maximum width.
C9_UniformWidth ==
    stable =>
        /\ \A i, j \in Indices : entries[i].rect.width = entries[j].rect.width
        /\ Appended =>
               \A i \in Indices :
                   entries[Len(entries)].rect.width >= entries[i].rect.width

\* A Separator appended after Actions that are wider than the Menu.
C9_Witness ==
    /\ stable
    /\ last.op = "add_separator"
    /\ Len(entries) >= 3
    /\ ActionIndices # {}
    /\ entries[1].rect.width > rect.width

----------------------------------------------------------------------------
(* Claims about the Menu and its entries (Spec).                           *)

InOrder == [i \in Indices |-> i]

\* C10: entries are offered events and drawn exactly when the Menu is
\* activated as the call begins: a collapsed Menu forwards no event, so no
\* entry's flags change and no entry's callback is invoked, and its draw
\* draws no entry; an expanded Menu forwards every event to every entry and
\* draws every entry in insertion order.
C10_EntriesLiveIffActivated ==
    [][/\ last'.op = "event" =>
              IF activated
              THEN last'.offered = InOrder
              ELSE /\ last'.offered = <<>>
                   /\ entries' = entries
                   /\ \A i \in Indices : last'.entry_clicks[i] = <<>>
       /\ last'.op = "draw" =>
              last'.drawn = IF activated THEN InOrder ELSE <<>>]_vars

\* An expanded Menu forwarded an event to its two entries, and one of them
\* invoked its callback.
C10_Witness ==
    /\ last.op = "event"
    /\ before.activated
    /\ Len(last.offered) >= 2
    /\ \E i \in Indices : last.entry_clicks[i] # <<>>

----------------------------------------------------------------------------
(* Further claims about the Menu's event state machine (Spec).             *)

\* C15: after one or more consecutive button-down events in the header of a
\* collapsed, unpressed Menu, the button-up in the header that follows leaves
\* the Menu expanded.
C15_AsStated == (before.holding /\ ReleaseInHeader) => activated

\* The last call was a button-up inside Action i.
ReleasedIn(i) ==
    /\ last.op = "event"
    /\ ButtonUp(last.event)
    /\ InRect(last.event, entries[i].rect)

\* C16: on a Menu opened by a press and a release in the header, a
\* button-down in an Action followed by a button-up in the same Action
\* invokes the Action's click callback exactly once (on the release),
\* collapses the Menu with redraw requested, and does not invoke the Menu's
\* own click callback.
C16_ClickOnActionCollapses ==
    /\ \A i \in Aimed : last.entry_clicks[i] = <<>>
    /\ \A i \in before.aimed :
           ReleasedIn(i) =>
               /\ Len(last.entry_clicks[i]) = 1
               /\ ~activated
               /\ last.redraw
               /\ last.clicks = <<>>

\* The release in the Action that was pressed on the opened Menu has been
\* handled.
C16_Witness ==
    \E i \in before.aimed :
        /\ ReleasedIn(i)
        /\ Len(last.entry_clicks[i]) = 1
        /\ before.activated
        /\ ~activated

\* The Separator entries.
Separators == {i \in 1..Len(entries) : entries[i].kind = "Separator"}

\* C17: a pointer event inside a Separator and outside the header, on an
\* expanded Menu, leaves activated set, leaves pressed set, invokes no Menu
\* click, and has redraw requested only by entries whose flags it changed.
C17_SeparatorHoldsMenuOpen ==
    [][(/\ activated
        /\ last'.op = "event"
        /\ last'.event.kind = "Mouse"
        /\ ~InRect(last'.event, rect)
        /\ \E i \in Separators : InRect(last'.event, entries[i].rect)) =>
           /\ activated'
           /\ pressed'
           /\ last'.clicks = <<>>
           /\ last'.redraw <=> (entries' # entries)]_vars

\* A release on a Separator reached an expanded, unpressed Menu, which it
\* would have collapsed had the Separator not claimed it.
C17_Witness ==
    /\ last.op = "event"
    /\ ButtonUp(last.event)
    /\ ~InHeader(last.event)
    /\ \E i \in Separators : InRect(last.event, entries[i].rect)
    /\ before.activated /\ ~before.pressed
    /\ activated /\ pressed

\* C18: the Menu's click callback is invoked exactly when the event's point
\* is in the header and the event changes activated (set on a button-down,
\* cleared on a button-up); at most once per event; with the point in
\* header-local coordinates; and every change of activated requests redraw.
C18_MenuClickIffHeaderToggle ==
    last.op = "event" =>
        /\ Len(last.clicks) <= 1
        /\ (last.clicks # <<>>) <=>
               (InHeader(last.event) /\ activated # before.activated)
        /\ activated # before.activated =>
               /\ last.redraw
               /\ activated <=> ButtonDown(last.event)
               /\ ~activated <=> ButtonUp(last.event)
        /\ \A k \in 1..Len(last.clicks) :
               /\ last.clicks[k].x = last.event.point.x - rect.x
               /\ last.clicks[k].y = last.event.point.y - rect.y
               /\ 0 <= last.clicks[k].x /\ last.clicks[k].x < rect.width
               /\ 0 <= last.clicks[k].y /\ last.clicks[k].y < rect.height

\* A closing click on a header that is not at the origin: the point handed
\* to the callback is not the event's.
C18_Witness ==
    /\ last.op = "event"
    /\ Len(last.clicks) = 1
    /\ before.activated /\ ~activated
    /\ last.clicks[1] # last.event.point

\* C19: a collapsed Menu is never mid-press.
C19_CollapsedIsUnpressed == ~activated => ~pressed

\* An event collapsed a Menu that has entries.
C19_Witness ==
    /\ last.op = "event"
    /\ before.activated
    /\ ~activated /\ ~pressed
    /\ entries # <<>>

----------------------------------------------------------------------------
(* Further claims about the Action's event state machine (SpecAction).     *)

\* The last call delivered a pointer event to the Action.
PointerHandled == last.op = "event" /\ last.event.kind = "Mouse"

\* The Action is pressed but not hovered.
PressedUnhovered == entries[1].pressed /\ ~entries[1].hover

\* C11 as stated: after every pointer event the Action has processed,
\* (hover=false, pressed=true) does not hold.
C11_AsStated == PointerHandled => ~PressedUnhovered

\* C11, amended: after a pointer event the Action has processed,
\* (hover=false, pressed=true) holds only when the event was a button-down
\* outside the rectangle delivered to a pressed Action (the pointer dragged
\* off with the button held); it then lasts until a later event.
C11_PressedUnhoveredOnlyOnDragOff ==
    PointerHandled =>
        (PressedUnhovered <=>
            /\ ButtonDown(last.event)
            /\ OutOfRect(last.event, entries[1].rect)
            /\ before.pressed)

\* A pressed, hovered Action was dragged off with the button held.
C11_Witness ==
    /\ PointerHandled
    /\ PressedUnhovered
    /\ before.hover
    /\ before.pressed

\* C14: the Action's handler sets redraw exactly when hover or pressed
\* differs after the event from what it was before it.
C14_RedrawIffFlagsChange ==
    last.op = "event" =>
        (last.redraw <=> (\/ entries[1].hover # before.hover
                          \/ entries[1].pressed # before.pressed))

\* A press on an Action the pointer was already over: only pressed changes,
\* and redraw is requested.
C14_Witness ==
    /\ last.op = "event"
    /\ ButtonDown(last.event)
    /\ before.hover /\ ~before.pressed
    /\ entries[1].hover /\ entries[1].pressed
    /\ last.redraw

\* C20: every click of the Action happens on a button-up inside the
\* rectangle that follows a button-down inside it with no button-up in
\* between, and one event invokes the callback at most once.
C20_ClickNeedsPressInside ==
    (last.op = "event" /\ last.entry_clicks[1] # <<>>) =>
        /\ Len(last.entry_clicks[1]) = 1
        /\ ButtonUp(last.event)
        /\ InRect(last.event, entries[1].rect)
        /\ before.held

\* A click was delivered, and the release that produced it left the Action
\* unheld.
C20_Witness ==
    /\ last.op = "event"
    /\ Len(last.entry_clicks[1]) = 1
    /\ before.held
    /\ ~Held

----------------------------------------------------------------------------
(* Further claims about the layout (SpecLayout).                           *)

\* C12: no add_action or add_separator call makes an entry that is already
\* appended narrower.
C12_WidthsNeverDecrease ==
    [][\A i \in Indices :
           entries'[i].rect.width >= entries[i].rect.width]_vars

\* An Action with a short label was appended after a wider entry, which
\* kept its width.
C12_Witness ==
    /\ last.op = "add_action"
    /\ Len(entries) >= 2
    /\ GlyphWidth * entries[Len(entries)].text < entries[1].rect.width
    /\ rect.width < entries[1].rect.width

\* The widths add_separator takes the maximum of: the Menu's own and those
\* of the entries present before the call.
WidthsBefore == {rect.width} \cup {entries[i].rect.width : i \in Indices}

\* C13: add_separator appends a Separator whose width is the maximum of the
\* Menu's own width and the widths of the entries present before the call,
\* and leaves the rectangle of every entry appended before unchanged.
C13_SeparatorTakesMaxWidth ==
    [][last'.op = "add_separator" =>
           /\ Len(entries') = Len(entries) + 1
           /\ entries'[Len(entries')].kind = "Separator"
           /\ entries'[Len(entries')].rect.width = MaxOf(WidthsBefore)
           /\ \A i \in Indices : entries'[i].rect = entries[i].rect]_vars

\* A Separator appended after an entry that is wider than the Menu took
\* that entry's width.
C13_Witness ==
    /\ last.op = "add_separator"
    /\ Len(entries) >= 2
    /\ entries[Len(entries)].rect.width > rect.width
    /\ entries[Len(entries)].rect.width = entries[1].rect.width

====
